---- MODULE Spec2Model ----
(***************************************************************************)
(* Decoding and vocabulary logic of the RNN-Transducer speech recogniser:  *)
(*   models.py     Transducer.greedy_decode / Transducerv2.greedy_decode,  *)
(*                 the beam_search design and its Sequence hypotheses      *)
(*   tokenizer.py  reserved token ids and CharTokenizer.__init__           *)
(*                                                                         *)
(* The recurrent networks are opaque.  A hidden vector is represented by   *)
(* the information it is a function of: an encoder output by the prefix of *)
(* frames the unidirectional LSTM has read, a predictor vector by the      *)
(* sequence of labels fed to it.  The joint network is an arbitrary        *)
(* function of the two; `joint` holds the part of that function that has   *)
(* been evaluated so far, and every first evaluation of a new argument     *)
(* draws its row of log-probabilities nondeterministically.                *)
(***************************************************************************)
EXTENDS Integers, Sequences, FiniteSets, TLC

\* tokenizer.py: reserved token ids
NUL == 0
PAD == 1
BOS == 2
EOS == 3
UNK == 4

\* models.py: Transducer(..., blank=NUL); self.blank = blank
blank == NUL

\* models.py: dec_num_layers of the predictor LSTM
dec_num_layers == 2

\* Largest number of (element, frame) cells of a feature batch.
MaxCells == 4

\* Largest beam width W and longest utterance given to beam_search.
MaxW == 2
MaxBeamFrames == 2

\* Values of one acoustic feature frame; 0 is the collation padding value.
Frame == {0, 1}

VARIABLES
    model,   \* configuration of the network: vocab_size, and whether it is
             \* the trivial frame-counting network of the end-to-end scenario
    joint,   \* the joint network: evaluated arguments |-> log-softmax row
    call,    \* the caller's greedy_decode calls, made one after the other
    beam,    \* the caller's beam_search call, made after them
    tokenizer  \* the CharTokenizer under construction

vars == <<model, joint, call, beam, tokenizer>>

Min(a, b) == IF a <= b THEN a ELSE b

RECURSIVE SumSeq(_)
SumSeq(s) == IF s = <<>> THEN 0 ELSE Head(s) + SumSeq(Tail(s))

(***************************************************************************)
(* The networks                                                            *)
(***************************************************************************)

\* a bidirectional encoder: every output is a function of all the frames
Encoder_Bidirectional(m, x) == [t \in 1..Len(x) |-> Append(x, t)]

\* self.encoder (+ encoder_fc) applied to one element's frames: nn.LSTM is
\* unidirectional, so the output at step t is a function of frames 1..t.
\* The trivial network only counts frames.
Encoder(m, x) ==
    [t \in 1..Len(x) |-> IF m.trivial THEN [j \in 1..t |-> 0] ELSE SubSeq(x, 1, t)]

\* self.embed
embed(tok) == tok

\* self.decoder(embed(toks), (h, c)) on a batch, one step: every layer's
\* hidden and cell vector is advanced by the label of its own element.
Decoder(toks, h, c) ==
    LET nh == [l \in 1..dec_num_layers |->
                 [b \in 1..Len(toks) |-> Append(h[l][b], embed(toks[b]))]]
        nc == [l \in 1..dec_num_layers |->
                 [b \in 1..Len(toks) |-> Append(c[l][b], embed(toks[b]))]]
    IN  [out |-> nh[dec_num_layers], h |-> nh, c |-> nc]

\* the zero state nn.LSTM starts from when no (h, c) is passed
ZeroState(B) == [l \in 1..dec_num_layers |-> [b \in 1..B |-> <<>>]]

\* self.decoder(self.embed(labels)) over one element's whole label sequence
\* (at least one label), from the zero state: the last output and the final
\* (h, c)
RECURSIVE DecoderOver(_, _, _)
DecoderOver(labels, h, c) ==
    LET d == Decoder(<<Head(labels)>>, h, c)
    IN  IF Len(labels) = 1 THEN d ELSE DecoderOver(Tail(labels), d.h, d.c)

\* forward: h_pre = torch.cat([bos, ys]); h_pre, _ = self.decoder(embed(h_pre))
ForwardPredictor(ys) == DecoderOver(<<BOS>> \o ys, ZeroState(1), ZeroState(1))

\* argument of self.joint(h_enc[:, i] + h_pre[:, 0]) for one element; the
\* trivial network's predictor contributes nothing.
JointKey(m, enc, pre) == IF m.trivial THEN <<enc, <<>>>> ELSE <<enc, pre>>

\* A log-softmax row over the vocabulary whose largest entry, -q, is at `best`.
Row(vs, best, q) == [k \in 0..(vs - 1) |-> -(q + ((k - best) % vs))]

\* A row in which blank and label 1 tie for the largest entry.
TieRow(vs) == [k \in 0..(vs - 1) |-> IF k <= 1 THEN -2 ELSE -(2 + k)]

\* Rows the joint network may produce for argument k.  The trivial network
\* of the end-to-end scenario prefers label 3 at frame 2 and blank elsewhere.
JointRows(m, k) ==
    IF m.trivial
    THEN {Row(m.vocab_size, IF Len(k[1]) - 1 = 2 THEN 3 ELSE blank, q) : q \in {1, 2}}
    ELSE {Row(m.vocab_size, b, 1 + b) : b \in 0..(m.vocab_size - 1)}
             \cup {TieRow(m.vocab_size)}

\* All ways to evaluate the joint network on the arguments `keys`, given
\* what has been evaluated before.
JointExtend(m, jt, keys) ==
    LET new  == keys \ DOMAIN jt
        rows == UNION {JointRows(m, k) : k \in keys}
    IN  {[k \in DOMAIN jt \cup new |-> IF k \in DOMAIN jt THEN jt[k] ELSE ext[k]] :
            ext \in {e \in [new -> rows] : \A k \in new : e[k] \in JointRows(m, k)}}

\* torch.max(probs, dim=1) for one row: the largest value and the first
\* index that holds it.
TorchMax(row) ==
    LET mx == CHOOSE v \in {row[k] : k \in DOMAIN row} :
                  \A k \in DOMAIN row : row[k] <= v
    IN  [prob |-> mx,
         pred |-> CHOOSE k \in DOMAIN row :
                      row[k] = mx /\ \A j \in DOMAIN row : row[j] = mx => k <= j]

(***************************************************************************)
(* greedy_decode                                                           *)
(***************************************************************************)

\* a call that has not started
NewCall(xs, xlen) ==
    [xs |-> xs, xlen |-> xlen, pc |-> "idle", i |-> 0, h_enc |-> <<>>,
     h_pre |-> <<>>, h |-> <<>>, c |-> <<>>, y_seq |-> <<>>, log_p |-> <<>>,
     ret_y |-> <<>>, ret_score |-> <<>>]

\* encoder, "initialize decoder": h_pre, (h, c) = decoder(embed(bos))
Enter(s, m) ==
    LET B   == Len(s.xs)
        bos == [b \in 1..B |-> BOS]
        d   == Decoder(bos, ZeroState(B), ZeroState(B))
    IN  [s EXCEPT !.pc = "loop", !.i = 0,
                  !.h_enc = [b \in 1..B |-> Encoder(m, s.xs[b])],
                  !.h_pre = d.out, !.h = d.h, !.c = d.c,
                  !.y_seq = <<>>, !.log_p = <<>>]

\* the mask dropped: every element adopts the advanced state
MaskedAssign_Unmasked(old, new, pred) == [b \in DOMAIN old |-> new[b]]

\* the mask inverted: the blank elements adopt the advanced state
MaskedAssign_Inverted(old, new, pred) ==
    [b \in DOMAIN old |-> IF pred[b] = blank THEN new[b] ELSE old[b]]

\* t[mask] = new[mask] with mask = (pred != self.blank), along the batch axis
MaskedAssign(old, new, pred) ==
    [b \in DOMAIN old |-> IF pred[b] # blank THEN new[b] ELSE old[b]]

\* arguments the joint network is evaluated on in iteration s.i
StepKeys(s, m) ==
    {JointKey(m, s.h_enc[b][s.i + 1], s.h_pre[b]) : b \in 1..Len(s.xs)}

\* one iteration of "for i in range(h_enc.shape[1])" with joint network jt
LoopBody(s, m, jt) ==
    LET B    == Len(s.xs)
        mx   == [b \in 1..B |->
                   TorchMax(jt[JointKey(m, s.h_enc[b][s.i + 1], s.h_pre[b])])]
        prob == [b \in 1..B |-> mx[b].prob]
        pred == [b \in 1..B |-> mx[b].pred]
        new  == Decoder(pred, s.h, s.c)
    IN  [s EXCEPT !.y_seq = Append(@, pred),
                  !.log_p = Append(@, prob),
                  !.h_pre = MaskedAssign(@, new.out, pred),
                  !.h = [l \in 1..dec_num_layers |-> MaskedAssign(s.h[l], new.h[l], pred)],
                  !.c = [l \in 1..dec_num_layers |-> MaskedAssign(s.c[l], new.c[l], pred)],
                  !.i = @ + 1]

\* torch.stack(steps, dim=1): per-step batch vectors -> per-element rows
Stack(steps, B) == [b \in 1..B |-> [t \in 1..Len(steps) |-> steps[t][b]]]

\* the slice dropped: the whole record is kept
Truncate_Whole(seq, seq_len) == seq

\* seq[:seq_len]
Truncate(seq, seq_len) == SubSeq(seq, 1, Min(seq_len, Len(seq)))

\* the filter dropped
RemoveBlank_Keep(seq) == seq

\* list(filter(lambda tok: tok != self.blank, seq))
RemoveBlank(seq) == SelectSeq(seq, LAMBDA tok : tok # blank)

\* the token record of one element after "truncat to xlen", then blank removal
ReturnedTokens(seq, seq_len) == RemoveBlank(Truncate(seq, seq_len))

\* ret_y: "for seq, seq_len in zip(y_seq, xlen)"; zip stops at the shorter
RetY(y, xlen) ==
    [n \in 1..Min(Len(y), Len(xlen)) |-> ReturnedTokens(y[n], xlen[n])]

\* log_p = torch.stack(log_p, dim=1).sum(dim=1); return ..., -log_p
Score(log_p, B) == [b \in 1..B |-> -SumSeq(Stack(log_p, B)[b])]

\* the score summed over the valid steps only
Leave_ValidScore(s) ==
    LET B == Len(s.xs)
    IN  [s EXCEPT !.pc = "done",
                  !.ret_y = RetY(Stack(s.y_seq, B), s.xlen),
                  !.ret_score = [b \in 1..B |->
                      -SumSeq(Truncate(Stack(s.log_p, B)[b], s.xlen[b]))]]

\* the statements after the loop
Leave(s) ==
    LET B == Len(s.xs)
    IN  [s EXCEPT !.pc = "done",
                  !.ret_y = RetY(Stack(s.y_seq, B), s.xlen),
                  !.ret_score = Score(s.log_p, B)]

\* h_enc.shape[1]
NumSteps(s) == Len(s.xs[1])

\* the caller is single-threaded: call r starts when the calls before it
\* have returned
GreedyCall(r) ==
    /\ call[r].pc = "idle"
    /\ \A q \in 1..(r - 1) : call[q].pc = "done"
    /\ call' = [call EXCEPT ![r] = Enter(call[r], model)]
    /\ UNCHANGED <<model, joint, beam, tokenizer>>

GreedyStep(r) ==
    /\ call[r].pc = "loop"
    /\ call[r].i < NumSteps(call[r])
    /\ \E jt \in JointExtend(model, joint, StepKeys(call[r], model)) :
          /\ joint' = jt
          /\ call' = [call EXCEPT ![r] = LoopBody(call[r], model, jt)]
    /\ UNCHANGED <<model, beam, tokenizer>>

GreedyReturn(r) ==
    /\ call[r].pc = "loop"
    /\ call[r].i = NumSteps(call[r])
    /\ call' = [call EXCEPT ![r] = Leave(call[r])]
    /\ UNCHANGED <<model, joint, beam, tokenizer>>

(***************************************************************************)
(* beam_search (the design kept in comments), prefix = False               *)
(***************************************************************************)

\* no beam_search call is made
NoBeam == [pc |-> "none"]

\* a call that has not started
NewBeam(x, W) ==
    [pc |-> "idle", xs |-> x, W |-> W, t |-> 0, A |-> <<>>, B |-> <<>>,
     ret_k |-> <<>>, ret_score |-> 0]

\* Sequence(blank=self.blank): h = None is the predictor's zero state
NewSequence ==
    [g |-> <<>>, k |-> <<blank>>,
     h |-> [h |-> ZeroState(1), c |-> ZeroState(1)], logp |-> 0]

\* forward_step(label, hidden): one predictor step on one label
forward_step(label, hidden) ==
    LET d == Decoder(<<label>>, hidden.h, hidden.c)
    IN  [pred |-> d.out[1], hidden |-> [h |-> d.h, c |-> d.c]]

\* max(hyps, key=lambda a: a.logp): index of the first hypothesis of
\* largest logp
MaxLogp(hyps) ==
    CHOOSE n \in 1..Len(hyps) :
        \A j \in 1..Len(hyps) :
            /\ hyps[j].logp <= hyps[n].logp
            /\ (hyps[j].logp = hyps[n].logp => n <= j)

\* list.remove of the element at index n
RemoveAt(hyps, n) == SubSeq(hyps, 1, n - 1) \o SubSeq(hyps, n + 1, Len(hyps))

\* the labels "for k in range(self.vocab_size)" appends to A, in order
Labels(m) == SelectSeq([n \in 1..m.vocab_size |-> n - 1], LAMBDA k : k # blank)

\* argument of self.joint(x, pred) at frame t (0-based) of the utterance
BeamKey(s, m, pred) == JointKey(m, Encoder(m, s.xs)[s.t + 1], pred)

\* the hypothesis popped by this iteration of "while True" and its
\* predictor step
Popped(s) == s.A[MaxLogp(s.A)]
PoppedStep(s) == forward_step(Popped(s).k[Len(Popped(s).k)], Popped(s).h)

\* xs through the encoder; B = [Sequence(blank=self.blank)]
BeamEnter(s) == [s EXCEPT !.pc = "frame", !.t = 0, !.B = <<NewSequence>>]

\* "for i, x in enumerate(xs)": sorted(B, ...) returns a new list that is
\* dropped, so B keeps its order; A = B; B = []
BeamFrameStart(s) == [s EXCEPT !.pc = "while", !.A = s.B, !.B = <<>>]

\* one iteration of "while True" with log-softmax row logp; on the break,
\* sorted(B, ...) is dropped again and B = B[:W] keeps the first W
BeamWhileBody(s, m, logp) ==
    LET y_hat  == Popped(s)
        st     == PoppedStep(s)
        rest   == RemoveAt(s.A, MaxLogp(s.A))
        labels == Labels(m)
        newB   == Append(s.B, [y_hat EXCEPT !.logp = @ + logp[blank]])
        newA   == rest \o
                  [n \in 1..Len(labels) |->
                     [y_hat EXCEPT !.logp = @ + logp[labels[n]],
                                   !.h = st.hidden,
                                   !.k = Append(@, labels[n])]]
        stop   == /\ Len(newB) >= s.W
                  /\ newB[MaxLogp(newB)].logp >= newA[MaxLogp(newA)].logp
    IN  IF stop
        THEN [s EXCEPT !.pc = "frame", !.t = @ + 1, !.A = newA,
                       !.B = SubSeq(newB, 1, Min(s.W, Len(newB)))]
        ELSE [s EXCEPT !.A = newA, !.B = newB]

\* return B[0].k, -B[0].logp
BeamLeave(s) ==
    [s EXCEPT !.pc = "done", !.ret_k = s.B[1].k, !.ret_score = -s.B[1].logp]

BeamCall ==
    /\ beam.pc = "idle"
    /\ \A q \in DOMAIN call : call[q].pc = "done"
    /\ beam' = BeamEnter(beam)
    /\ UNCHANGED <<model, joint, call, tokenizer>>

BeamFrame ==
    /\ beam.pc = "frame"
    /\ beam.t < Len(beam.xs)
    /\ beam' = BeamFrameStart(beam)
    /\ UNCHANGED <<model, joint, call, tokenizer>>

BeamExpand ==
    /\ beam.pc = "while"
    /\ LET key == BeamKey(beam, model, PoppedStep(beam).pred)
       IN  \E jt \in JointExtend(model, joint, {key}) :
              /\ joint' = jt
              /\ beam' = BeamWhileBody(beam, model, jt[key])
    /\ UNCHANGED <<model, call, tokenizer>>

BeamReturn ==
    /\ beam.pc = "frame"
    /\ beam.t = Len(beam.xs)
    /\ beam' = BeamLeave(beam)
    /\ UNCHANGED <<model, joint, call, tokenizer>>

\* no tokenizer is built
NoTokenizer == [pc |-> "none"]

(***************************************************************************)
(* Inputs                                                                  *)
(***************************************************************************)

\* shapes (batch size, frames) of a feature batch with at least one frame
Shapes == {sh \in (1..MaxCells) \X (1..MaxCells) : sh[1] * sh[2] <= MaxCells}

\* valid lengths of a batch of B elements of T frames
Lengths(B, T) == [1..B -> 0..T]

\* batches as the collation builds them: zero beyond the valid length
Batches(B, T, xlen) ==
    {xs \in [1..B -> [1..T -> Frame]] :
        \A b \in 1..B : \A t \in 1..T : t > xlen[b] => xs[b][t] = 0}

FreeModel == [vocab_size |-> BOS + 1, trivial |-> FALSE]

NoJoint == [k \in {} |-> <<>>]

\* one call on a well-formed batch
Init ==
    /\ model = FreeModel
    /\ joint = NoJoint
    /\ beam = NoBeam
    /\ tokenizer = NoTokenizer
    /\ \E sh \in Shapes : \E xlen \in Lengths(sh[1], sh[2]) :
          \E xs \in Batches(sh[1], sh[2], xlen) :
             call = <<NewCall(xs, xlen)>>

Next ==
    \E r \in DOMAIN call :
       \/ GreedyCall(r)
       \/ GreedyStep(r)
       \/ GreedyReturn(r)

Spec == Init /\ [][Next]_vars

\* batches that agree with xs on every element's valid frames
Repadded(xs, xlen) ==
    {ys \in [1..Len(xs) -> [1..Len(xs[1]) -> Frame]] :
        \A b \in 1..Len(xs) : \A t \in 1..Len(xs[1]) :
            t <= xlen[b] => ys[b][t] = xs[b][t]}

\* one-element batches with room for padding; two calls are compared, so
\* each is kept a frame shorter than a single call's longest batch
PadShapes == {sh \in Shapes : sh[1] = 1 /\ sh[2] < MaxCells}

\* two calls on the same network whose batches differ in the padding only
InitPad ==
    /\ model = FreeModel
    /\ joint = NoJoint
    /\ beam = NoBeam
    /\ tokenizer = NoTokenizer
    /\ \E sh \in PadShapes : \E xlen \in Lengths(sh[1], sh[2]) :
          \E xs \in Batches(sh[1], sh[2], xlen) : \E ys \in Repadded(xs, xlen) :
             call = <<NewCall(xs, xlen), NewCall(ys, xlen)>>

SpecPad == InitPad /\ [][Next]_vars

\* one call whose xlen has one entry fewer or one more than the batch has
\* elements
InitShape ==
    /\ model = FreeModel
    /\ joint = NoJoint
    /\ beam = NoBeam
    /\ tokenizer = NoTokenizer
    /\ \E sh \in Shapes : \E n \in {sh[1] - 1, sh[1] + 1} :
          \E xlen \in [1..n -> 0..sh[2]] :
             \E xs \in [1..sh[1] -> [1..sh[2] -> Frame]] :
                call = <<NewCall(xs, xlen)>>

SpecShape == InitShape /\ [][Next]_vars

\* greedy_decode on a one-utterance batch, then beam_search on the same
\* utterance with the same network
InitBeam ==
    /\ model = FreeModel
    /\ joint = NoJoint
    /\ \E T \in 1..MaxBeamFrames : \E x \in [1..T -> Frame] : \E W \in 1..MaxW :
          /\ call = <<NewCall(<<x>>, <<T>>)>>
          /\ beam = NewBeam(x, W)
    /\ tokenizer = NoTokenizer

NextBeam ==
    \/ \E r \in DOMAIN call :
          \/ GreedyCall(r)
          \/ GreedyStep(r)
          \/ GreedyReturn(r)
    \/ BeamCall
    \/ BeamFrame
    \/ BeamExpand
    \/ BeamReturn

SpecBeam == InitBeam /\ [][NextBeam]_vars

\* the end-to-end scenario: vocabulary ids 0..7, three elements of five
\* frames with valid lengths 5, 3, 5, and the trivial network that prefers
\* label 3 at frame 2 and blank at every other frame
ScenarioModel == [vocab_size |-> 8, trivial |-> TRUE]

ScenarioLengths == <<5, 3, 5>>

InitE2E ==
    /\ model = ScenarioModel
    /\ joint = NoJoint
    /\ beam = NoBeam
    /\ tokenizer = NoTokenizer
    /\ \E f \in [1..3 -> Frame] :
          call = <<NewCall([b \in 1..3 |-> [t \in 1..5 |->
                               IF t <= ScenarioLengths[b] THEN f[b] ELSE 0]],
                           ScenarioLengths)>>

SpecE2E == InitE2E /\ [][Next]_vars

(***************************************************************************)
(* tokenizer.py: CharTokenizer.__init__                                    *)
(***************************************************************************)

NUL_token == "<nul>"
PAD_token == "<pad>"
BOS_token == "<bos>"
EOS_token == "<eos>"
UNK_token == "<unk>"

\* a dict is its keys in insertion order and their values
Dict(keys, val) == [keys |-> keys, val |-> val]

EmptyDict == Dict(<<>>, [k \in {} |-> 0])

Has(d, k) == k \in DOMAIN d.val

\* d[k] = v: a new key goes last, a known key keeps its place
Put(d, k, v) ==
    Dict(IF Has(d, k) THEN d.keys ELSE Append(d.keys, k),
         [x \in DOMAIN d.val \cup {k} |-> IF x = k THEN v ELSE d.val[x]])

DEFAULT_TOKEN2ID ==
    Put(Put(Put(Put(Put(EmptyDict, NUL_token, NUL), PAD_token, PAD),
                BOS_token, BOS), EOS_token, EOS), UNK_token, UNK)

\* string.ascii_lowercase
ascii_lowercase ==
    <<"a", "b", "c", "d", "e", "f", "g", "h", "i", "j", "k", "l", "m", "n", "o", "p", "q", "r", "s", "t", "u", "v", "w", "x", "y", "z">>

\* string.punctuation; the grave accent, which a string literal here cannot
\* hold, is written "grave"
punctuation ==
    <<"!", "\"", "#", "$", "%", "&", "'", "(", ")", "*", "+", ",", "-", ".", "/", ":",
      ";", "<", "=", ">", "?", "@", "[", "\\", "]", "^", "_", "grave", "{", "|", "}", "~">>

\* valid_tokens = string.ascii_lowercase + string.punctuation + ' '
valid_tokens == ascii_lowercase \o punctuation \o <<" ">>

\* CharTokenizer() before __init__ runs
NewTokenizer ==
    [pc |-> "new", idx |-> 0, token2id |-> EmptyDict, id2token |-> EmptyDict,
     vocab_size |-> 0]

\* self.token2id = dict(DEFAULT_TOKEN2ID); self.id2token = {}
TokStart(s) ==
    [s EXCEPT !.pc = "enumerate", !.idx = 0,
              !.token2id = DEFAULT_TOKEN2ID, !.id2token = EmptyDict]

\* the id "for idx, token in enumerate(valid_tokens)" gives a token
CharId(idx) == idx + 4

\* self.token2id[token] = idx + 4
TokAssign(s) ==
    [s EXCEPT !.token2id = Put(@, valid_tokens[s.idx + 1], CharId(s.idx)),
              !.idx = @ + 1]

\* self.id2token[idx] = token, for the idx-th item of self.token2id
TokInvert(s) ==
    LET token == s.token2id.keys[s.idx + 1]
    IN  [s EXCEPT !.id2token = Put(@, s.token2id.val[token], token),
                  !.idx = @ + 1]

\* self.vocab_size = len(self.id2token)
TokFinish(s) == [s EXCEPT !.pc = "done", !.vocab_size = Len(s.id2token.keys)]

TokConstruct ==
    /\ tokenizer.pc = "new"
    /\ tokenizer' = TokStart(tokenizer)
    /\ UNCHANGED <<model, joint, call, beam>>

TokEnumerate ==
    /\ tokenizer.pc = "enumerate"
    /\ tokenizer.idx < Len(valid_tokens)
    /\ tokenizer' = TokAssign(tokenizer)
    /\ UNCHANGED <<model, joint, call, beam>>

TokEnumerated ==
    /\ tokenizer.pc = "enumerate"
    /\ tokenizer.idx = Len(valid_tokens)
    /\ tokenizer' = [tokenizer EXCEPT !.pc = "items", !.idx = 0]
    /\ UNCHANGED <<model, joint, call, beam>>

TokItems ==
    /\ tokenizer.pc = "items"
    /\ tokenizer.idx < Len(tokenizer.token2id.keys)
    /\ tokenizer' = TokInvert(tokenizer)
    /\ UNCHANGED <<model, joint, call, beam>>

TokDone ==
    /\ tokenizer.pc = "items"
    /\ tokenizer.idx = Len(tokenizer.token2id.keys)
    /\ tokenizer' = TokFinish(tokenizer)
    /\ UNCHANGED <<model, joint, call, beam>>

InitTok ==
    /\ model = FreeModel
    /\ joint = NoJoint
    /\ call = <<>>
    /\ beam = NoBeam
    /\ tokenizer = NewTokenizer

NextTok == TokConstruct \/ TokEnumerate \/ TokEnumerated \/ TokItems \/ TokDone

SpecTok == InitTok /\ [][NextTok]_vars

(***************************************************************************)
(* Properties of greedy_decode                                             *)
(***************************************************************************)

Returned(r) == call[r].pc = "done"

\* label chosen by element b in iteration t (1-based) of call r
Chosen(r, t, b) == call[r].y_seq[t][b]

\* the non-blank labels element b chose in iterations 1..n, in order
RECURSIVE Emitted(_, _, _)
Emitted(r, b, n) ==
    IF n = 0 THEN <<>>
    ELSE Emitted(r, b, n - 1) \o
         (IF Chosen(r, n, b) # blank THEN <<Chosen(r, n, b)>> ELSE <<>>)

\* C1: no token sequence returned by greedy_decode contains the blank token.
C1_NoBlankReturned ==
    \A r \in DOMAIN call : Returned(r) =>
        \A n \in DOMAIN call[r].ret_y :
            \A j \in DOMAIN call[r].ret_y[n] : call[r].ret_y[n][j] # blank

\* a returned, non-empty sequence of an element that chose blank at a valid
\* step
C1_Witness ==
    \E r \in DOMAIN call : Returned(r) /\
        \E n \in DOMAIN call[r].ret_y :
            /\ call[r].ret_y[n] # <<>>
            /\ \E t \in 1..call[r].xlen[n] : Chosen(r, t, n) = blank

\* C2: in every iteration and for every element on its own, a blank choice
\* leaves h_pre and every layer of (h, c) as they were, and a non-blank
\* choice replaces them by the predictor advanced on the chosen label from
\* the state before the iteration.
C2_StateMasking ==
    [][\A r \in DOMAIN call :
         (call[r].pc = "loop" /\ call'[r].i = call[r].i + 1) =>
            LET old   == call[r]
                new   == call'[r]
                pred  == new.y_seq[new.i]
                fresh == Decoder(pred, old.h, old.c)
            IN  \A b \in 1..Len(old.xs) :
                   IF pred[b] = blank
                   THEN /\ new.h_pre[b] = old.h_pre[b]
                        /\ \A l \in 1..dec_num_layers :
                              new.h[l][b] = old.h[l][b] /\ new.c[l][b] = old.c[l][b]
                   ELSE /\ new.h_pre[b] = fresh.out[b]
                        /\ \A l \in 1..dec_num_layers :
                              new.h[l][b] = fresh.h[l][b] /\ new.c[l][b] = fresh.c[l][b]
      ]_vars

\* an iteration has just run in which one element chose blank and another a
\* label, both having emitted a label before
C2_Witness ==
    \E r \in DOMAIN call : call[r].i >= 2 /\
        \E a, b \in 1..Len(call[r].xs) :
            /\ Chosen(r, call[r].i, a) = blank
            /\ Chosen(r, call[r].i, b) # blank
            /\ Len(call[r].h_pre[a]) = 2
            /\ Len(call[r].h[1][b]) = 3

\* C3: for an element of valid length L <= T the record considered before
\* blank removal has exactly L entries, the labels of iterations 1..L, and
\* the returned sequence is the non-blank ones among them in order; L = 0
\* returns the empty sequence.
C3_LengthTruncation ==
    \A r \in DOMAIN call : Returned(r) =>
        \A b \in DOMAIN call[r].ret_y :
            LET L      == call[r].xlen[b]
                record == Truncate(Stack(call[r].y_seq, Len(call[r].xs))[b], L)
            IN  L <= NumSteps(call[r]) =>
                  /\ Len(record) = L
                  /\ \A t \in 1..L : record[t] = Chosen(r, t, b)
                  /\ call[r].ret_y[b] = Emitted(r, b, L)
                  /\ (L = 0 => call[r].ret_y[b] = <<>>)

\* a returned element of valid length L < T that chose a label, then blank
\* within L, and a label beyond L
C3_Witness ==
    \E r \in DOMAIN call : Returned(r) /\
        \E b \in DOMAIN call[r].ret_y :
            LET L == call[r].xlen[b]
            IN  /\ L < NumSteps(call[r])
                /\ L >= 2
                /\ Chosen(r, 1, b) # blank
                /\ Chosen(r, 2, b) = blank
                /\ Chosen(r, L + 1, b) # blank
                /\ Len(call[r].ret_y[b]) = 1


\* log-probability the joint network gives the label element b chose in
\* iteration t: the row for frames 1..t and the labels emitted before t
ChosenLogp(r, t, b) ==
    joint[JointKey(model, Encoder(model, call[r].xs[b])[t],
                   <<BOS>> \o Emitted(r, b, t - 1))][Chosen(r, t, b)]

RECURSIVE SumChosen(_, _, _)
SumChosen(r, b, n) ==
    IF n = 0 THEN 0 ELSE SumChosen(r, b, n - 1) + ChosenLogp(r, n, b)

\* C5: the score returned for each element is minus the sum of the chosen
\* log-probabilities of all T iterations, blank ones and those at or beyond
\* the valid length included.
C5_ScoreOverAllSteps ==
    \A r \in DOMAIN call : Returned(r) =>
        /\ DOMAIN call[r].ret_score = 1..Len(call[r].xs)
        /\ \A b \in 1..Len(call[r].xs) :
              call[r].ret_score[b] = -SumChosen(r, b, NumSteps(call[r]))

\* a returned element of valid length L < T that chose blank within L and
\* whose score exceeds what iterations 1..L alone and what its non-blank
\* iterations alone would give
C5_Witness ==
    \E r \in DOMAIN call : Returned(r) /\
        \E b \in DOMAIN call[r].ret_y :
            LET L == call[r].xlen[b]
            IN  /\ 1 <= L /\ L < NumSteps(call[r])
                /\ \E t \in 1..L : Chosen(r, t, b) = blank
                /\ call[r].ret_y[b] # <<>>
                /\ call[r].ret_score[b] > -SumChosen(r, b, L)


\* C4: two calls whose batches agree on an element's frames below its valid
\* length L < T and differ only at or beyond L return the same token
\* sequence for that element.
C4_PaddingInvariance ==
    (Len(call) = 2 /\ Returned(1) /\ Returned(2)) =>
        \A b \in 1..Len(call[1].xs) :
            (/\ call[1].xlen[b] < NumSteps(call[1])
             /\ \A t \in 1..call[1].xlen[b] : call[1].xs[b][t] = call[2].xs[b][t])
            => call[1].ret_y[b] = call[2].ret_y[b]

\* both calls returned a label for an element whose padding differs between
\* them, and the labels chosen at the first padded frame differ
C4_Witness ==
    /\ Len(call) = 2 /\ Returned(1) /\ Returned(2)
    /\ \E b \in 1..Len(call[1].xs) :
          LET L == call[1].xlen[b]
          IN  /\ L < NumSteps(call[1])
              /\ call[1].xs[b][L + 1] # call[2].xs[b][L + 1]
              /\ Chosen(1, L + 1, b) # Chosen(2, L + 1, b)
              /\ call[1].ret_y[b] # <<>>
              /\ call[1].ret_score[b] # call[2].ret_score[b]


\* C6 as stated: in the end-to-end scenario the call returns [[3],[],[3]],
\* the scores of elements 0 and 2 are equal and the score of element 1
\* differs from them.
C6_ScenarioAsStated ==
    (model = ScenarioModel /\ Returned(1)) =>
        /\ call[1].ret_y = << <<3>>, <<>>, <<3>> >>
        /\ call[1].ret_score[1] = call[1].ret_score[3]
        /\ call[1].ret_score[2] # call[1].ret_score[1]

\* C6 amended: in the end-to-end scenario the call returns [[3],[3],[3]]
\* (frame 2 is the third frame, inside element 1's valid length 3, so its
\* label is kept) and the scores of all three elements are equal: each is
\* summed over all five frames, whatever the valid length.
C6_Scenario ==
    (model = ScenarioModel /\ Returned(1)) =>
        /\ call[1].ret_y = << <<3>>, <<3>>, <<3>> >>
        /\ call[1].ret_score[1] = call[1].ret_score[3]
        /\ call[1].ret_score[2] = call[1].ret_score[1]
        /\ \A b \in 1..3 : call[1].ret_score[b] = -SumChosen(1, b, 5)

\* the scenario has returned: every element chose label 3 at frame 2 and
\* blank elsewhere, and element 1 has padding after its third frame
C6_Witness ==
    /\ model = ScenarioModel /\ Returned(1)
    /\ call[1].xlen = <<5, 3, 5>>
    /\ \A b \in 1..3 : \A t \in 1..5 : Chosen(1, t, b) = (IF t = 3 THEN 3 ELSE blank)
    /\ call[1].xs[2] # call[1].xs[1]
    /\ call[1].xs[1] # call[1].xs[3]


\* C7: a call whose batch size differs from the number of entries of
\* valid_lengths fails for the whole batch: it never returns a result.
C7_ShapeMismatchFails ==
    \A r \in DOMAIN call :
        Len(call[r].xlen) # Len(call[r].xs) => ~Returned(r)


\* C11: at the start of every iteration, and for every element, h_pre and
\* every layer of (h, c) are what the full-sequence predictor of forward
\* gives on BOS followed by the non-blank labels the element chose in the
\* iterations before, in order; blanks contribute nothing and labels chosen
\* at or beyond the valid length are included.
C11_LabelHistory ==
    \A r \in DOMAIN call : call[r].pc = "loop" =>
        \A b \in 1..Len(call[r].xs) :
            LET full == ForwardPredictor(Emitted(r, b, call[r].i))
            IN  /\ call[r].h_pre[b] = full.out[1]
                /\ \A l \in 1..dec_num_layers :
                      /\ call[r].h[l][b] = full.h[l][1]
                      /\ call[r].c[l][b] = full.c[l][1]

\* an element of a well-formed batch that has chosen a label, then blank,
\* then a label at a frame beyond its valid length, while another element
\* of the batch has chosen blank only
C11_Witness ==
    \E r \in DOMAIN call : call[r].pc = "loop" /\
        \E a, b \in 1..Len(call[r].xs) :
            /\ call[r].i >= 2
            /\ Len(call[r].xlen) = Len(call[r].xs)
            /\ call[r].xlen[b] < call[r].i
            /\ Chosen(r, call[r].i, b) # blank
            /\ \E t \in 1..call[r].i : Chosen(r, t, b) = blank
            /\ \A t \in 1..call[r].i : Chosen(r, t, a) = blank
            /\ Len(call[r].h_pre[a]) = 1

(***************************************************************************)
(* Properties of beam_search                                               *)
(***************************************************************************)

BeamReturned == beam.pc = "done"

\* C8: with W = 1 and prefix merging disabled, beam_search returns for an
\* utterance the token sequence greedy_decode returns for it as a
\* one-element batch (the implicit leading blank of k set aside).
C8_BeamOneIsGreedy ==
    (BeamReturned /\ beam.W = 1 /\ Returned(1)) =>
        Tail(beam.ret_k) = call[1].ret_y[1]

\* C9: after the last frame beam_search returns the hypothesis of largest
\* logp among those kept in B, its tokens are that hypothesis's k without
\* the leading blank, and its score is minus that logp.
C9_BeamResult ==
    BeamReturned =>
        LET top == beam.B[MaxLogp(beam.B)]
        IN  /\ beam.ret_k = Tail(top.k)
            /\ beam.ret_score = -top.logp


(***************************************************************************)
(* Properties of CharTokenizer                                             *)
(***************************************************************************)

Reserved ==
    {<<NUL_token, 0>>, <<PAD_token, 1>>, <<BOS_token, 2>>, <<EOS_token, 3>>,
     <<UNK_token, 4>>}

\* C10: NUL=0, PAD=1, BOS=2, EOS=3, UNK=4 are reserved, every ordinary
\* entry CharTokenizer builds has an id >= 5, and id2token maps each
\* reserved id back to its reserved token.
C10_ReservedIds ==
    tokenizer.pc = "done" =>
        /\ \A p \in Reserved : tokenizer.token2id.val[p[1]] = p[2]
        /\ \A n \in 1..Len(valid_tokens) : tokenizer.token2id.val[valid_tokens[n]] >= 5
        /\ \A p \in Reserved : tokenizer.id2token.val[p[2]] = p[1]

====
